---- MODULE Spec2Model ----
(***************************************************************************)
(* SBPlatform.cpp: the SBPlatform wrapper (a shared pointer m_opaque_sp to *)
(* a Platform), the connectivity gate ExecuteConnected, and the caller's   *)
(* argument objects (PlatformShellCommand, PlatformConnectOptions,         *)
(* launch info).  The Platform object behind the pointer is the external   *)
(* transport: its answers are chosen nondeterministically.                 *)
(***************************************************************************)
EXTENDS Integers, Sequences, FiniteSets, TLC

\* ------------------------------------------------------------------ bounds
\* SBPlatform instances of a session that uses one wrapper
NumWrappers == 1
\* SBPlatform instances of a session that copies and assigns wrappers
NumAliases == 2

\* ------------------------------------------------------------- value sets
\* the Platform objects a one-wrapper session and an aliasing session can name
SessionPlatforms == {"p1"}
AliasPlatforms == {"p1", "p2"}
\* a null pointer: an empty PlatformSP, a null const char *
NULL == "nullptr"
\* a default-constructed Status
SUCCESS == ""
\* llvm::None: an llvm::Optional without a value (<<n>> is one with value n)
None == <<>>
Commands == {"ls"}
Urls == {"connect://h:1"}
Pids == {7}
INVALID_PID == 0
\* what a transport primitive may answer
TransportErrors == {SUCCESS, "transport failure"}
\* what RunShellCommand may store through its three out-pointers
RunResults ==
  { [status |-> 0, signo |-> 0, output |-> "hi"],
    [status |-> 1, signo |-> 0, output |-> ""],
    [status |-> 0, signo |-> 9, output |-> ""] }
\* the local file a Put or Install names, as the local filesystem shows it
\* (a missing file has neither permissions nor a type)
LocalFiles ==
  { [path |-> "/l/f", exists |-> FALSE, permissions |-> 0, is_dir |-> FALSE] }
  \cup { [path |-> "/l/f", exists |-> TRUE, permissions |-> p, is_dir |-> d] :
            p \in {0, 420}, d \in BOOLEAN }
\* Install and Get can read only the file's existence and path
InstallFiles == { f \in LocalFiles : f.permissions = 0 /\ ~f.is_dir }
\* a uint32_t as two 16-bit halves <<high, low>>
U32(n) == <<0, n>>
UINT32_MAX == <<65535, 65535>>
\* what Platform::GetOSVersion may answer: major[.minor[.subminor]], the
\* default-constructed tuple when the version is unknown
Versions ==
  { [major |-> 0, minor |-> None, subminor |-> None],
    [major |-> 10, minor |-> None, subminor |-> None],
    [major |-> 10, minor |-> <<15>>, subminor |-> None],
    [major |-> 10, minor |-> <<15>>, subminor |-> <<4>>],
    [major |-> 0, minor |-> <<5>>, subminor |-> None],
    [major |-> 0, minor |-> <<0>>, subminor |-> None] }
\* what Platform::GetFilePermissions may store through its out-parameter
RemotePermissions == {0, 420}
\* arguments given to the setters of SBPlatformShellCommand
Shells == {NULL, "", "/bin/sh"}
TimeoutSeconds == {U32(0), <<32768, 0>>, <<65535, 65534>>, UINT32_MAX}
\* arguments given to the setters of SBPlatformConnectOptions
OptionUrls == {NULL, "", "connect://h:1", "connect://g:2"}
RsyncOptions == {NULL, "", "-a", "-z"}
RsyncPrefixes == {NULL, "", "/pre", "/alt"}
CacheDirectories == {NULL, "", "/cache", "/tmp/c"}
eFilePermissionsFileDefault == 384
eFilePermissionsDirectoryDefault == 448

VARIABLES
  m_opaque_sp,     \* [Wrappers -> Platforms \cup {NULL}]: SBPlatform::m_opaque_sp
  connected,       \* [Platforms -> BOOLEAN]: Platform::IsConnected()
  working_dir,     \* [Platforms -> string]: Platform::GetWorkingDirectory()
  shell_command,   \* the caller's PlatformShellCommand
  launch_info,     \* the caller's launch info (its process id)
  m_opaque_ptr,    \* SBPlatformConnectOptions::m_opaque_ptr: the caller's
                   \* PlatformConnectOptions
  last             \* the last call: operation, wrapper, arguments, SBError,
                   \* transport calls, returned value

vars ==
  <<m_opaque_sp, connected, working_dir, shell_command, launch_info,
    m_opaque_ptr, last>>

\* ------------------------------------------------- PlatformConnectOptions
\* the constructor: a null or empty url leaves m_url empty
PlatformConnectOptions(url) ==
  [ m_url |-> IF url # NULL /\ url # "" THEN url ELSE "",
    m_rsync_options |-> "",
    m_rsync_remote_path_prefix |-> "",
    m_rsync_enabled |-> FALSE,
    m_rsync_omit_hostname_from_remote_path |-> FALSE,
    m_local_cache_directory |-> "" ]

ConnectOptions_GetURL(opts) ==
  IF opts.m_url = "" THEN NULL ELSE opts.m_url

\* faulty variant: an empty url leaves the stored url in place
ConnectOptions_SetURL_KeepsOnEmpty(opts, url) ==
  IF url # NULL /\ url # "" THEN [opts EXCEPT !.m_url = url] ELSE opts

ConnectOptions_SetURL(opts, url) ==
  IF url # NULL /\ url # ""
    THEN [opts EXCEPT !.m_url = url]
    ELSE [opts EXCEPT !.m_url = ""]

ConnectOptions_GetRsyncEnabled(opts) == opts.m_rsync_enabled

\* faulty variant: a null or empty argument leaves the stored field in place
ConnectOptions_EnableRsync_KeepsStale(opts, options, remote_path_prefix, omit_hostname_from_remote_path) ==
  [opts EXCEPT
     !.m_rsync_enabled = TRUE,
     !.m_rsync_omit_hostname_from_remote_path = omit_hostname_from_remote_path,
     !.m_rsync_remote_path_prefix =
        IF remote_path_prefix # NULL /\ remote_path_prefix # ""
          THEN remote_path_prefix ELSE @,
     !.m_rsync_options =
        IF options # NULL /\ options # "" THEN options ELSE @]

ConnectOptions_EnableRsync(opts, options, remote_path_prefix, omit_hostname_from_remote_path) ==
  [opts EXCEPT
     !.m_rsync_enabled = TRUE,
     !.m_rsync_omit_hostname_from_remote_path = omit_hostname_from_remote_path,
     !.m_rsync_remote_path_prefix =
        IF remote_path_prefix # NULL /\ remote_path_prefix # ""
          THEN remote_path_prefix ELSE "",
     !.m_rsync_options =
        IF options # NULL /\ options # "" THEN options ELSE ""]

ConnectOptions_DisableRsync(opts) == [opts EXCEPT !.m_rsync_enabled = FALSE]

\* ConstString::GetCString of the stored directory: nullptr when it is empty
ConnectOptions_GetLocalCacheDirectory(opts) ==
  IF opts.m_local_cache_directory = "" THEN NULL
  ELSE opts.m_local_cache_directory

ConnectOptions_SetLocalCacheDirectory(opts, path) ==
  IF path # NULL /\ path # ""
    THEN [opts EXCEPT !.m_local_cache_directory = path]
    ELSE [opts EXCEPT !.m_local_cache_directory = ""]

\* --------------------------------------------------- PlatformShellCommand
\* the one-argument constructor
PlatformShellCommand(cmd) ==
  [ m_shell |-> "",
    m_command |-> IF cmd # "" THEN cmd ELSE "",
    m_working_dir |-> "",
    m_output |-> "",
    m_status |-> 0,
    m_signo |-> 0,
    m_timeout |-> None ]

\* faulty variant: the command is stored whatever the interpreter
PlatformShellCommand2_StoresCommandAlways(shell_interpreter, cmd) ==
  [ m_shell |-> IF shell_interpreter # "" THEN shell_interpreter ELSE "",
    m_command |-> IF cmd # "" THEN cmd ELSE "",
    m_working_dir |-> "",
    m_output |-> "",
    m_status |-> 0,
    m_signo |-> 0,
    m_timeout |-> None ]

\* the two-argument constructor: the command is stored only when m_shell
\* has been set
PlatformShellCommand2(shell_interpreter, cmd) ==
  [ m_shell |-> IF shell_interpreter # "" THEN shell_interpreter ELSE "",
    m_command |-> IF shell_interpreter # "" /\ cmd # "" THEN cmd ELSE "",
    m_working_dir |-> "",
    m_output |-> "",
    m_status |-> 0,
    m_signo |-> 0,
    m_timeout |-> None ]

\* faulty variant: the output of the last run is kept
ShellCommand_Clear_KeepsOutput(sc) ==
  [sc EXCEPT !.m_status = 0, !.m_signo = 0]

\* SBPlatformShellCommand::Clear
ShellCommand_Clear(sc) ==
  [sc EXCEPT !.m_output = "", !.m_status = 0, !.m_signo = 0]

ShellCommand_GetShell(sc) ==
  IF sc.m_shell = "" THEN NULL ELSE sc.m_shell

ShellCommand_SetShell(sc, shell_interpreter) ==
  IF shell_interpreter # NULL /\ shell_interpreter # ""
    THEN [sc EXCEPT !.m_shell = shell_interpreter]
    ELSE [sc EXCEPT !.m_shell = ""]

\* std::chrono::seconds(sec): the uint32_t widened to the int64_t count of
\* the duration, as four 16-bit quarters
seconds(sec) == <<0, 0, sec[1], sec[2]>>

\* the int64_t count narrowed to the uint32_t that is returned
uint32_t(count) == <<count[3], count[4]>>

ShellCommand_GetTimeoutSeconds(sc) ==
  IF sc.m_timeout # None THEN uint32_t(sc.m_timeout[1]) ELSE UINT32_MAX

\* faulty variant: the count is stored in 16 bits
ShellCommand_SetTimeoutSeconds_Narrows(sc, sec) ==
  IF sec = UINT32_MAX
    THEN [sc EXCEPT !.m_timeout = None]
    ELSE [sc EXCEPT !.m_timeout = <<seconds(<<0, sec[2]>>)>>]

ShellCommand_SetTimeoutSeconds(sc, sec) ==
  IF sec = UINT32_MAX
    THEN [sc EXCEPT !.m_timeout = None]
    ELSE [sc EXCEPT !.m_timeout = <<seconds(sec)>>]

ShellCommand_GetCommand(sc) ==
  IF sc.m_command = "" THEN NULL ELSE sc.m_command

ShellCommand_SetCommand(sc, cmd) ==
  IF cmd # NULL /\ cmd # ""
    THEN [sc EXCEPT !.m_command = cmd]
    ELSE [sc EXCEPT !.m_command = ""]

ShellCommand_GetWorkingDirectory(sc) ==
  IF sc.m_working_dir = "" THEN NULL ELSE sc.m_working_dir

ShellCommand_SetWorkingDirectory(sc, path) ==
  IF path # NULL /\ path # ""
    THEN [sc EXCEPT !.m_working_dir = path]
    ELSE [sc EXCEPT !.m_working_dir = ""]

\* ------------------------------------------------------------- the wrapper
\* the SBPlatform instances and the Platform objects of the session
Wrappers == DOMAIN m_opaque_sp
Platforms == DOMAIN connected

GetSP(w) == m_opaque_sp[w]

\* ConstString::GetCString(): null for the empty string
GetCString(s) == IF s = "" THEN NULL ELSE s

\* FileSpec(const char *): the empty FileSpec for a null or empty path
FileSpec(path) == IF path = NULL THEN "" ELSE path

\* An operation's effect: its SBError, the transport calls it made, the
\* caller's argument objects as it leaves them and the connection state.
Effect(err, calls, sc, info, conn) ==
  [ err |-> err, calls |-> calls, shell_command |-> sc,
    launch_info |-> info, connected |-> conn ]

\* an SBError carrying only a message: nothing called, nothing changed
ErrorOnly(msg) == Effect(msg, <<>>, shell_command, launch_info, connected)

\* one invocation of a Platform primitive: what it was given and the Status
\* it answered
Call(fn, platform, args, ret) ==
  [ fn |-> fn, platform |-> platform, args |-> args, ret |-> ret ]

\* ------------------------------------------------ the transport (Platform)
\* connect(url): success sets the connected flag, failure leaves it
Platform_ConnectRemote(p, t) ==
  IF t = SUCCESS THEN [connected EXCEPT ![p] = TRUE] ELSE connected

\* disconnect(): success clears the connected flag, failure leaves it
Platform_DisconnectRemote(p, t) ==
  IF t = SUCCESS THEN [connected EXCEPT ![p] = FALSE] ELSE connected

\* run_shell_command: status, signal and output are stored through the
\* three out-pointers, the Status is returned
Platform_RunShellCommand(sc, t, r) ==
  [sc EXCEPT !.m_status = r.status, !.m_signo = r.signo, !.m_output = r.output]

\* launch_process(config): may mutate the configuration (the resolved pid)
Platform_LaunchProcess(info, pid) == [info EXCEPT !.pid = pid]

\* --------------------------------------------------------------- SBPlatform
\* faulty variant: the gate tests the identity only
ExecuteConnected_SkipsConnectedCheck(w, func) ==
  IF GetSP(w) # NULL THEN func ELSE ErrorOnly("invalid platform")

ExecuteConnected(w, func) ==
  IF GetSP(w) # NULL
    THEN IF connected[GetSP(w)]
           THEN func
           ELSE ErrorOnly("not connected")
    ELSE ErrorOnly("invalid platform")

\* faulty variant: an already connected platform is not connected again
ConnectRemote_SkipsWhenConnected(w, connect_options, t) ==
  IF GetSP(w) # NULL /\ ConnectOptions_GetURL(connect_options) # NULL
    THEN IF connected[GetSP(w)]
           THEN ErrorOnly(SUCCESS)
           ELSE Effect(t,
                       <<Call("ConnectRemote", GetSP(w),
                              <<ConnectOptions_GetURL(connect_options)>>, t)>>,
                       shell_command, launch_info,
                       Platform_ConnectRemote(GetSP(w), t))
    ELSE ErrorOnly("invalid platform")

ConnectRemote(w, connect_options, t) ==
  IF GetSP(w) # NULL /\ ConnectOptions_GetURL(connect_options) # NULL
    THEN Effect(t,
                <<Call("ConnectRemote", GetSP(w),
                       <<ConnectOptions_GetURL(connect_options)>>, t)>>,
                shell_command, launch_info,
                Platform_ConnectRemote(GetSP(w), t))
    ELSE ErrorOnly("invalid platform")

\* faulty variant: the transport is asked only while the platform is connected
DisconnectRemote_ChecksConnected(w, t) ==
  IF GetSP(w) # NULL /\ connected[GetSP(w)]
    THEN Effect(SUCCESS, <<Call("DisconnectRemote", GetSP(w), <<>>, t)>>,
                shell_command, launch_info,
                Platform_DisconnectRemote(GetSP(w), t))
    ELSE ErrorOnly(SUCCESS)

\* void: the transport's Status is dropped, the Effect's err stays SUCCESS
DisconnectRemote(w, t) ==
  IF GetSP(w) # NULL
    THEN Effect(SUCCESS, <<Call("DisconnectRemote", GetSP(w), <<>>, t)>>,
                shell_command, launch_info,
                Platform_DisconnectRemote(GetSP(w), t))
    ELSE ErrorOnly(SUCCESS)

Get(w, src, dst, t) ==
  IF GetSP(w) # NULL
    THEN Effect(t, <<Call("GetFile", GetSP(w), <<src.path, dst>>, t)>>,
                shell_command, launch_info, connected)
    ELSE ErrorOnly("invalid platform")

\* faulty variant: the permissions read are passed on as they are
PutPermissions_NoDefault(src) == src.permissions

\* src is the local file as FileSystem::Instance() shows it
PutPermissions(src) ==
  IF src.permissions = 0
    THEN IF src.is_dir THEN eFilePermissionsDirectoryDefault
                       ELSE eFilePermissionsFileDefault
    ELSE src.permissions

SrcDoesNotExist(src) == "'src' argument doesn't exist: '" \o src.path \o "'"

\* faulty variant: the upload is attempted whether or not src exists
Put_SkipsExistsCheck(w, src, dst, t) ==
  ExecuteConnected(w,
    Effect(t, <<Call("PutFile", GetSP(w),
                     <<src.path, dst, PutPermissions(src)>>, t)>>,
           shell_command, launch_info, connected))

Put(w, src, dst, t) ==
  ExecuteConnected(w,
    IF src.exists
      THEN Effect(t, <<Call("PutFile", GetSP(w),
                            <<src.path, dst, PutPermissions(src)>>, t)>>,
                  shell_command, launch_info, connected)
      ELSE ErrorOnly(SrcDoesNotExist(src)))

Install(w, src, dst, t) ==
  ExecuteConnected(w,
    IF src.exists
      THEN Effect(t, <<Call("Install", GetSP(w), <<src.path, dst>>, t)>>,
                  shell_command, launch_info, connected)
      ELSE ErrorOnly(SrcDoesNotExist(src)))

\* the working directory Run hands to the transport, as a const char *
RunWorkingDir(w, sc) ==
  IF ShellCommand_GetWorkingDirectory(sc) = NULL
    THEN GetCString(working_dir[GetSP(w)])
    ELSE ShellCommand_GetWorkingDirectory(sc)

\* faulty variant: the directory is not stored in the shell command
RunFillWorkingDir_NotStored(w, sc) == sc

\* the shell command after lines 582-587
RunFillWorkingDir(w, sc) ==
  IF ShellCommand_GetWorkingDirectory(sc) = NULL /\ RunWorkingDir(w, sc) # NULL
    THEN ShellCommand_SetWorkingDirectory(sc, RunWorkingDir(w, sc))
    ELSE sc

\* lines 588-593: the transport runs the command and stores its results
RunShellCommand(w, sc, t, r) ==
  Effect(t,
         <<Call("RunShellCommand", GetSP(w),
                <<sc.m_shell, ShellCommand_GetCommand(sc),
                  FileSpec(RunWorkingDir(w, sc)), r, sc.m_timeout>>, t)>>,
         Platform_RunShellCommand(RunFillWorkingDir(w, sc), t, r),
         launch_info, connected)

\* faulty variant: a non-zero exit status is reported as a failure of Run
Run_FailsOnNonZeroStatus(w, sc, t, r) ==
  ExecuteConnected(w,
    IF ShellCommand_GetCommand(sc) = NULL
      THEN ErrorOnly("invalid shell command (empty)")
      ELSE IF t = SUCCESS /\ r.status # 0
             THEN [RunShellCommand(w, sc, t, r) EXCEPT !.err = "command failed"]
             ELSE RunShellCommand(w, sc, t, r))

\* faulty variant: a Run that does not reach the transport clears the old results
Run_ClearsResultsOnFailure(w, sc, t, r) ==
  IF GetSP(w) # NULL /\ connected[GetSP(w)] /\ ShellCommand_GetCommand(sc) # NULL
    THEN RunShellCommand(w, sc, t, r)
    ELSE Effect(IF GetSP(w) = NULL THEN "invalid platform"
                ELSE IF ~connected[GetSP(w)] THEN "not connected"
                ELSE "invalid shell command (empty)",
                <<>>, ShellCommand_Clear(sc), launch_info, connected)

\* faulty variant: the working directory is filled in before the command is checked
Run_FillsWorkingDirFirst(w, sc, t, r) ==
  ExecuteConnected(w,
    IF ShellCommand_GetCommand(sc) = NULL
      THEN Effect("invalid shell command (empty)", <<>>,
                  RunFillWorkingDir(w, sc), launch_info, connected)
      ELSE RunShellCommand(w, sc, t, r))

Run(w, sc, t, r) ==
  ExecuteConnected(w,
    IF ShellCommand_GetCommand(sc) = NULL
      THEN ErrorOnly("invalid shell command (empty)")
      ELSE RunShellCommand(w, sc, t, r))

\* faulty variant: the launch info is written back after a success only
Launch_WritesBackOnSuccessOnly(w, info, t, pid) ==
  ExecuteConnected(w,
    Effect(t, <<Call("LaunchProcess", GetSP(w), <<info, pid>>, t)>>,
           shell_command,
           IF t = SUCCESS THEN Platform_LaunchProcess(info, pid) ELSE info,
           connected))
Launch(w, info, t, pid) ==
  ExecuteConnected(w,
    Effect(t, <<Call("LaunchProcess", GetSP(w), <<info, pid>>, t)>>,
           shell_command, Platform_LaunchProcess(info, pid), connected))

\* faulty variant: a failed KillProcess is tried a second time
Kill_RetriesOnFailure(w, pid, t) ==
  ExecuteConnected(w,
    Effect(t, IF t = SUCCESS
                THEN <<Call("KillProcess", GetSP(w), <<pid>>, t)>>
                ELSE <<Call("KillProcess", GetSP(w), <<pid>>, t),
                       Call("KillProcess", GetSP(w), <<pid>>, t)>>,
           shell_command, launch_info, connected))
Kill(w, pid, t) ==
  ExecuteConnected(w,
    Effect(t, <<Call("KillProcess", GetSP(w), <<pid>>, t)>>,
           shell_command, launch_info, connected))

\* faulty variant: MakeDirectory goes through the connected gate
SBMakeDirectory_RequiresConnection(w, path, file_permissions, t) ==
  ExecuteConnected(w,
    Effect(t, <<Call("MakeDirectory", GetSP(w),
                     <<FileSpec(path), file_permissions>>, t)>>,
           shell_command, launch_info, connected))
SBMakeDirectory(w, path, file_permissions, t) ==
  IF GetSP(w) # NULL
    THEN Effect(t, <<Call("MakeDirectory", GetSP(w),
                          <<FileSpec(path), file_permissions>>, t)>>,
                shell_command, launch_info, connected)
    ELSE ErrorOnly("invalid platform")

SetFilePermissions(w, path, file_permissions, t) ==
  IF GetSP(w) # NULL
    THEN Effect(t, <<Call("SetFilePermissions", GetSP(w),
                          <<FileSpec(path), file_permissions>>, t)>>,
                shell_command, launch_info, connected)
    ELSE ErrorOnly("invalid platform")

\* an operation without an SBError: the value it returns and the transport
\* calls it made
Answer(ret, calls) == [ ret |-> ret, calls |-> calls ]

\* the transport stores fp through the out-parameter; its Status is dropped
GetFilePermissions(w, path, t, fp) ==
  IF GetSP(w) # NULL
    THEN Answer(fp, <<Call("GetFilePermissions", GetSP(w),
                           <<FileSpec(path), fp>>, t)>>)
    ELSE Answer(0, <<>>)

IsValid(w) == GetSP(w) # NULL

\* faulty variant: the connected flag is read without testing the pointer
IsConnected_SkipsIdentityCheck(w) == \E p \in Platforms : connected[p]
IsConnected(w) == IF GetSP(w) # NULL THEN connected[GetSP(w)] ELSE FALSE

GetWorkingDirectory(w) ==
  IF GetSP(w) # NULL THEN GetCString(working_dir[GetSP(w)]) ELSE NULL

\* llvm::VersionTuple
VersionTuple == [major |-> 0, minor |-> None, subminor |-> None]
\* llvm::Optional::getValueOr
getValueOr(opt, dflt) == IF opt = None THEN dflt ELSE U32(opt[1])
VersionTuple_empty(v) ==
  /\ v.major = 0
  /\ getValueOr(v.minor, U32(0)) = U32(0)
  /\ getValueOr(v.subminor, U32(0)) = U32(0)

\* lines 492-494: the platform's version, the default tuple without one
GetOSVersion(w, v) == IF GetSP(w) # NULL THEN v ELSE VersionTuple

OSVersionCalls(w, v) ==
  IF GetSP(w) # NULL
    THEN <<Call("GetOSVersion", GetSP(w), <<v>>, SUCCESS)>>
    ELSE <<>>

GetOSMajorVersion(w, v) ==
  Answer(IF VersionTuple_empty(GetOSVersion(w, v))
           THEN UINT32_MAX
           ELSE U32(GetOSVersion(w, v).major),
         OSVersionCalls(w, v))

\* faulty variant: no minor version is reported while not connected
GetOSMinorVersion_RequiresConnection(w, v) ==
  Answer(IF IsConnected(w)
           THEN getValueOr(GetOSVersion(w, v).minor, UINT32_MAX)
           ELSE UINT32_MAX,
         OSVersionCalls(w, v))
GetOSMinorVersion(w, v) ==
  Answer(getValueOr(GetOSVersion(w, v).minor, UINT32_MAX),
         OSVersionCalls(w, v))

GetOSUpdateVersion(w, v) ==
  Answer(getValueOr(GetOSVersion(w, v).subminor, UINT32_MAX),
         OSVersionCalls(w, v))

\* ------------------------------------------------------------------ actions
\* a call through wrapper w returns: record it and store what it changed
Return(op, w, args, e) ==
  /\ last' = [ op |-> op, w |-> w, args |-> args, err |-> e.err,
               calls |-> e.calls, ret |-> NULL ]
  /\ shell_command' = e.shell_command
  /\ launch_info' = e.launch_info
  /\ connected' = e.connected
  /\ UNCHANGED <<m_opaque_ptr, m_opaque_sp, working_dir>>

CallConnectRemote ==
  \E w \in Wrappers, url \in {NULL, ""} \cup Urls, t \in TransportErrors :
    Return("ConnectRemote", w, <<PlatformConnectOptions(url)>>,
           ConnectRemote(w, PlatformConnectOptions(url), t))

CallDisconnectRemote ==
  \E w \in Wrappers, t \in TransportErrors :
    Return("DisconnectRemote", w, <<>>, DisconnectRemote(w, t))

CallGet ==
  \E w \in Wrappers, src \in InstallFiles, t \in TransportErrors :
    Return("Get", w, <<src, "/l/g">>, Get(w, src, "/l/g", t))

CallPut ==
  \E w \in Wrappers, src \in LocalFiles, t \in TransportErrors :
    Return("Put", w, <<src, "/r/f">>, Put(w, src, "/r/f", t))

CallInstall ==
  \E w \in Wrappers, src \in InstallFiles, t \in TransportErrors :
    Return("Install", w, <<src, "/r/f">>, Install(w, src, "/r/f", t))

CallRun ==
  \E w \in Wrappers, t \in TransportErrors, r \in RunResults :
    Return("Run", w, <<>>, Run(w, shell_command, t, r))

CallLaunch ==
  \E w \in Wrappers, t \in TransportErrors, pid \in {INVALID_PID} \cup Pids :
    Return("Launch", w, <<>>, Launch(w, launch_info, t, pid))

CallKill ==
  \E w \in Wrappers, pid \in Pids, t \in TransportErrors :
    Return("Kill", w, <<pid>>, Kill(w, pid, t))

CallMakeDirectory ==
  \E w \in Wrappers, t \in TransportErrors :
    Return("MakeDirectory", w, <<"/r/d", 448>>,
           SBMakeDirectory(w, "/r/d", 448, t))

CallSetFilePermissions ==
  \E w \in Wrappers, t \in TransportErrors :
    Return("SetFilePermissions", w, <<"/r/f", 420>>,
           SetFilePermissions(w, "/r/f", 420, t))

\* a call without an SBError returns: nothing but the record of it changes
Returned(op, w, args, a) ==
  /\ last' = [ op |-> op, w |-> w, args |-> args, err |-> SUCCESS,
               calls |-> a.calls, ret |-> a.ret ]
  /\ UNCHANGED <<m_opaque_ptr, m_opaque_sp, connected, working_dir,
                 shell_command,
                 launch_info>>

CallGetFilePermissions ==
  \E w \in Wrappers, t \in TransportErrors, fp \in RemotePermissions :
    Returned("GetFilePermissions", w, <<"/r/f">>,
             GetFilePermissions(w, "/r/f", t, fp))

CallIsConnected ==
  \E w \in Wrappers :
    Returned("IsConnected", w, <<>>, Answer(IsConnected(w), <<>>))
CallGetWorkingDirectory ==
  \E w \in Wrappers :
    Returned("GetWorkingDirectory", w, <<>>,
             Answer(GetWorkingDirectory(w), <<>>))

CallGetOSMajorVersion ==
  \E w \in Wrappers, v \in Versions :
    Returned("GetOSMajorVersion", w, <<>>, GetOSMajorVersion(w, v))

CallGetOSMinorVersion ==
  \E w \in Wrappers, v \in Versions :
    Returned("GetOSMinorVersion", w, <<>>, GetOSMinorVersion(w, v))

CallGetOSUpdateVersion ==
  \E w \in Wrappers, v \in Versions :
    Returned("GetOSUpdateVersion", w, <<>>, GetOSUpdateVersion(w, v))

\* SBPlatform::Clear: m_opaque_sp.reset()
Clear(w) == [m_opaque_sp EXCEPT ![w] = NULL]

\* faulty variant: the assignment moves the pointer out of rhs
Assign_Moves(w, rhs) ==
  [m_opaque_sp EXCEPT ![rhs] = NULL, ![w] = m_opaque_sp[rhs]]

\* faulty variant: the assignment gives w a platform object of its own
Assign_Detaches(w, rhs) ==
  [m_opaque_sp EXCEPT ![w] =
     IF \E p \in Platforms : p # m_opaque_sp[rhs]
       THEN CHOOSE p \in Platforms : p # m_opaque_sp[rhs]
       ELSE NULL]

\* SBPlatform::operator=: m_opaque_sp = rhs.m_opaque_sp
Assign(w, rhs) == [m_opaque_sp EXCEPT ![w] = m_opaque_sp[rhs]]

SetSP(w, platform_sp) == [m_opaque_sp EXCEPT ![w] = platform_sp]

\* SBPlatform::SetWorkingDirectory: the platform's directory afterwards
SetWorkingDirectory(w, path) ==
  IF GetSP(w) # NULL
    THEN [working_dir EXCEPT ![GetSP(w)] = FileSpec(path)]
    ELSE working_dir

\* SBPlatform::SetWorkingDirectory: the bool it returns
SetWorkingDirectoryResult(w) == GetSP(w) # NULL

\* a call that returns no SBError and reaches no transport primitive
Called(op, w, args) ==
  last' = [ op |-> op, w |-> w, args |-> args, err |-> SUCCESS, calls |-> <<>>,
            ret |-> NULL ]

CallClear ==
  \E w \in Wrappers :
    /\ m_opaque_sp' = Clear(w)
    /\ Called("Clear", w, <<>>)
    /\ UNCHANGED <<m_opaque_ptr, connected, working_dir, shell_command,
                    launch_info>>

CallAssign ==
  \E w \in Wrappers, rhs \in Wrappers :
    /\ m_opaque_sp' = Assign(w, rhs)
    /\ Called("operator=", w, <<rhs>>)
    /\ UNCHANGED <<m_opaque_ptr, connected, working_dir, shell_command,
                    launch_info>>

CallSetSP ==
  \E w \in Wrappers, p \in Platforms \cup {NULL} :
    /\ m_opaque_sp' = SetSP(w, p)
    /\ Called("SetSP", w, <<p>>)
    /\ UNCHANGED <<m_opaque_ptr, connected, working_dir, shell_command,
                    launch_info>>

CallSetWorkingDirectory ==
  \E w \in Wrappers, path \in {NULL, "", "/a"} :
    /\ working_dir' = SetWorkingDirectory(w, path)
    /\ last' = [ op |-> "SetWorkingDirectory", w |-> w, args |-> <<path>>,
                 err |-> SUCCESS, calls |-> <<>>,
                 ret |-> SetWorkingDirectoryResult(w) ]
    /\ UNCHANGED <<m_opaque_ptr, m_opaque_sp, connected, shell_command, launch_info>>

\* the caller prepares the shell command between runs (no wrapper is
\* involved: the call is recorded under the first one)
CallShellSetCommand ==
  \E cmd \in {NULL, ""} \cup Commands :
    /\ shell_command' = ShellCommand_SetCommand(shell_command, cmd)
    /\ Called("ShellCommand::SetCommand", 1, <<cmd>>)
    /\ UNCHANGED <<m_opaque_ptr, m_opaque_sp, connected, working_dir,
                    launch_info>>

CallShellSetWorkingDirectory ==
  \E path \in {NULL, "", "/b"} :
    /\ shell_command' = ShellCommand_SetWorkingDirectory(shell_command, path)
    /\ Called("ShellCommand::SetWorkingDirectory", 1, <<path>>)
    /\ UNCHANGED <<m_opaque_ptr, m_opaque_sp, connected, working_dir,
                    launch_info>>

\* a setter of the caller's SBPlatformConnectOptions returns: nothing but the
\* options changes
OptionsSet(op, args, opts) ==
  /\ m_opaque_ptr' = opts
  /\ last' = [ op |-> op, w |-> 1, args |-> args, err |-> SUCCESS,
               calls |-> <<>>, ret |-> NULL ]
  /\ UNCHANGED <<m_opaque_sp, connected, working_dir, shell_command,
                 launch_info>>

CallOptionsSetURL ==
  \E url \in OptionUrls :
    OptionsSet("ConnectOptions::SetURL", <<url>>,
               ConnectOptions_SetURL(m_opaque_ptr, url))

CallOptionsEnableRsync ==
  \E options \in RsyncOptions, prefix \in RsyncPrefixes, omit \in BOOLEAN :
    OptionsSet("ConnectOptions::EnableRsync", <<options, prefix, omit>>,
               ConnectOptions_EnableRsync(m_opaque_ptr, options, prefix,
                                          omit))

CallOptionsDisableRsync ==
  OptionsSet("ConnectOptions::DisableRsync", <<>>,
             ConnectOptions_DisableRsync(m_opaque_ptr))

CallOptionsSetLocalCacheDirectory ==
  \E path \in CacheDirectories :
    OptionsSet("ConnectOptions::SetLocalCacheDirectory", <<path>>,
               ConnectOptions_SetLocalCacheDirectory(m_opaque_ptr, path))
ShellSet(op, args, sc) ==
  /\ shell_command' = sc
  /\ Called(op, 1, args)
  /\ UNCHANGED <<m_opaque_ptr, m_opaque_sp, connected, working_dir,
                 launch_info>>

CallShellSetShell ==
  \E shell_interpreter \in Shells :
    ShellSet("ShellCommand::SetShell", <<shell_interpreter>>,
             ShellCommand_SetShell(shell_command, shell_interpreter))

CallShellSetTimeoutSeconds ==
  \E sec \in TimeoutSeconds :
    ShellSet("ShellCommand::SetTimeoutSeconds", <<sec>>,
             ShellCommand_SetTimeoutSeconds(shell_command, sec))

CallShellGetTimeoutSeconds ==
  Returned("ShellCommand::GetTimeoutSeconds", 1, <<>>,
           Answer(ShellCommand_GetTimeoutSeconds(shell_command), <<>>))

\* the caller constructs a new shell command in place of the one it had
CallShellConstruct ==
  \E cmd \in {""} \cup Commands :
    ShellSet("SBPlatformShellCommand", <<cmd>>, PlatformShellCommand(cmd))

CallShellConstruct2 ==
  \E shell_interpreter \in {"", "/bin/sh"}, cmd \in {""} \cup Commands :
    ShellSet("SBPlatformShellCommand", <<shell_interpreter, cmd>>,
             PlatformShellCommand2(shell_interpreter, cmd))
CallShellClear ==
  ShellSet("ShellCommand::Clear", <<>>, ShellCommand_Clear(shell_command))

\* after construction: every wrapper default-constructed (null) or made for a
\* platform, no platform connected, a fresh shell command and launch info
Init ==
  /\ m_opaque_sp \in [1..NumWrappers -> SessionPlatforms \cup {NULL}]
  /\ connected = [p \in SessionPlatforms |-> FALSE]
  /\ working_dir = [p \in SessionPlatforms |-> ""]
  /\ shell_command \in {PlatformShellCommand(c) : c \in {""} \cup Commands}
  /\ launch_info = [pid |-> INVALID_PID]
  /\ m_opaque_ptr = PlatformConnectOptions(NULL)
  /\ last = [ op |-> "init", w |-> 1, args |-> <<>>, err |-> SUCCESS,
              calls |-> <<>>, ret |-> NULL ]

Next ==
  \/ CallConnectRemote
  \/ CallDisconnectRemote
  \/ CallGet
  \/ CallPut
  \/ CallInstall
  \/ CallRun
  \/ CallLaunch
  \/ CallKill
  \/ CallClear
  \/ CallAssign
  \/ CallSetSP
  \/ CallSetWorkingDirectory
  \/ CallGetWorkingDirectory
  \/ CallIsConnected
  \/ CallMakeDirectory
  \/ CallGetFilePermissions
  \/ CallSetFilePermissions
  \/ CallGetOSMajorVersion
  \/ CallGetOSMinorVersion
  \/ CallGetOSUpdateVersion
  \/ CallShellSetCommand
  \/ CallShellSetWorkingDirectory

Spec == Init /\ [][Next]_vars

\* a caller that builds an SBPlatformConnectOptions and sets its fields
InitOptions ==
  /\ m_opaque_sp = [w \in 1..NumWrappers |-> NULL]
  /\ connected = [p \in SessionPlatforms |-> FALSE]
  /\ working_dir = [p \in SessionPlatforms |-> ""]
  /\ shell_command = PlatformShellCommand("")
  /\ launch_info = [pid |-> INVALID_PID]
  /\ \E url \in OptionUrls :
       /\ m_opaque_ptr = PlatformConnectOptions(url)
       /\ last = [ op |-> "SBPlatformConnectOptions", w |-> 1,
                   args |-> <<url>>, err |-> SUCCESS, calls |-> <<>>,
                   ret |-> NULL ]

NextOptions ==
  \/ CallOptionsSetURL
  \/ CallOptionsEnableRsync
  \/ CallOptionsDisableRsync
  \/ CallOptionsSetLocalCacheDirectory

SpecOptions == InitOptions /\ [][NextOptions]_vars
\* a caller that prepares one SBPlatformShellCommand, runs it on a platform
\* and reads and clears it between the runs
InitShell ==
  /\ m_opaque_sp \in [1..NumWrappers -> SessionPlatforms]
  /\ connected = [p \in SessionPlatforms |-> FALSE]
  /\ working_dir = [p \in SessionPlatforms |-> ""]
  /\ \E c \in {""} \cup Commands :
       /\ shell_command = PlatformShellCommand(c)
       /\ last = [ op |-> "SBPlatformShellCommand", w |-> 1, args |-> <<c>>,
                   err |-> SUCCESS, calls |-> <<>>, ret |-> NULL ]
  /\ launch_info = [pid |-> INVALID_PID]
  /\ m_opaque_ptr = PlatformConnectOptions(NULL)

NextShell ==
  \/ CallConnectRemote
  \/ CallRun
  \/ CallShellSetShell
  \/ CallShellSetCommand
  \/ CallShellSetWorkingDirectory
  \/ CallShellSetTimeoutSeconds
  \/ CallShellGetTimeoutSeconds
  \/ CallShellClear
  \/ CallShellConstruct
  \/ CallShellConstruct2

SpecShell == InitShell /\ [][NextShell]_vars

\* a session that copies, assigns and clears wrappers of two platforms
InitAlias ==
  /\ m_opaque_sp \in [1..NumAliases -> AliasPlatforms \cup {NULL}]
  /\ connected = [p \in AliasPlatforms |-> FALSE]
  /\ working_dir = [p \in AliasPlatforms |-> ""]
  /\ shell_command = PlatformShellCommand("ls")
  /\ launch_info = [pid |-> INVALID_PID]
  /\ m_opaque_ptr = PlatformConnectOptions(NULL)
  /\ last = [ op |-> "init", w |-> 1, args |-> <<>>, err |-> SUCCESS,
              calls |-> <<>>, ret |-> NULL ]

NextAlias ==
  \/ CallClear
  \/ CallAssign
  \/ CallSetSP
  \/ CallConnectRemote
  \/ CallDisconnectRemote
  \/ CallSetWorkingDirectory
  \/ CallGet
  \/ CallKill

SpecAlias == InitAlias /\ [][NextAlias]_vars

\* ------------------------------------------------------------------ claims
\* In a step, last' names the call that was made; the unprimed variables are
\* the state the call found.
\* the Platform the called wrapper pointed to when the call was made
CalledSP == m_opaque_sp[last'.w]
WasValid == CalledSP # NULL
WasConnected == CalledSP # NULL /\ connected[CalledSP]
GatedOps == {"Run", "Put", "Install", "Launch", "Kill"}
\* status, signal and output of a shell command
Results(sc) ==
  [status |-> sc.m_status, signo |-> sc.m_signo, output |-> sc.m_output]

\* C1: Run, Put, Install, Launch and Kill on an invalid identity fail with
\* "invalid platform", on a valid but not connected identity with "not
\* connected", whatever the arguments (so before any argument check); no
\* transport operation is invoked and neither the connection state nor the
\* shell command or launch info changes.
C1_GateRefuses ==
  [][ (last'.op \in GatedOps /\ ~WasConnected) =>
        /\ last'.err = (IF WasValid THEN "not connected" ELSE "invalid platform")
        /\ last'.calls = <<>>
        /\ connected' = connected
        /\ shell_command' = shell_command
        /\ launch_info' = launch_info ]_vars

\* C1 witness: a Run with an empty command on a valid, disconnected identity
\* was refused for the connection, not for the command.
C1_Witness ==
  /\ last.op = "Run"
  /\ last.err = "not connected"
  /\ shell_command.m_command = ""

\* C2: Get on a valid but disconnected identity fails with "not connected"
\* and does not invoke the transport's file-fetch primitive; on an invalid
\* identity it fails with "invalid platform".
C2_GetRequiresConnection ==
  [][ last'.op = "Get" =>
        /\ ~WasValid => last'.err = "invalid platform"
        /\ (WasValid /\ ~WasConnected) =>
             (last'.err = "not connected" /\ last'.calls = <<>>) ]_vars

\* C3: ConnectRemote fails, invokes no transport operation and leaves the
\* connected flag alone when the identity is invalid or the url is unset;
\* otherwise, connected or not, it invokes the transport's connect once with
\* the url as its single argument and returns the transport's answer.
C3_ConnectRemote ==
  [][ last'.op = "ConnectRemote" =>
        IF ~WasValid \/ last'.args[1].m_url = ""
          THEN /\ last'.err # SUCCESS
               /\ last'.calls = <<>>
               /\ connected' = connected
          ELSE /\ Len(last'.calls) = 1
               /\ last'.calls[1].fn = "ConnectRemote"
               /\ last'.calls[1].platform = CalledSP
               /\ last'.calls[1].args = <<last'.args[1].m_url>>
               /\ last'.err = last'.calls[1].ret ]_vars

\* C3 witness: a connect on an already connected platform reached the
\* transport and its failure was returned.
C3_Witness ==
  /\ last.op = "ConnectRemote"
  /\ Len(last.calls) = 1
  /\ last.err = "transport failure"
  /\ connected[m_opaque_sp[last.w]]

\* C4: on a valid connected identity, Put and Install of a src that does not
\* exist locally fail with "'src' argument doesn't exist: '<path>'" and invoke
\* no transport operation; with an existing src Put invokes only the upload
\* primitive and Install only the install primitive; Get delegates to the
\* fetch primitive whether or not src exists locally.
C4_LocalSourceCheck ==
  [][ (last'.op \in {"Put", "Install", "Get"} /\ WasConnected) =>
        IF last'.op # "Get" /\ ~last'.args[1].exists
          THEN /\ last'.err = "'src' argument doesn't exist: '/l/f'"
               /\ last'.calls = <<>>
          ELSE /\ Len(last'.calls) = 1
               /\ last'.calls[1].fn =
                    (CASE last'.op = "Put" -> "PutFile"
                       [] last'.op = "Install" -> "Install"
                       [] last'.op = "Get" -> "GetFile") ]_vars

\* C4 witness: a Put of a missing src on a connected identity was refused.
C4_Witness ==
  /\ last.op = "Put"
  /\ ~last.args[1].exists
  /\ last.err = "'src' argument doesn't exist: '/l/f'"

\* C5: Run on a valid connected identity with a non-empty command returns the
\* transport's answer (success also when the exit status or signal is not
\* zero), and the shell command's status, signal and output are the values
\* the transport produced.
C5_RunReturnsTransportResult ==
  [][ (last'.op = "Run" /\ WasConnected /\ shell_command.m_command # "") =>
        /\ Len(last'.calls) = 1
        /\ last'.calls[1].fn = "RunShellCommand"
        /\ last'.err = last'.calls[1].ret
        /\ Results(shell_command') = last'.calls[1].args[4] ]_vars

\* C5 witness: a Run succeeded with a non-zero exit status.
C5_Witness ==
  /\ last.op = "Run"
  /\ last.err = SUCCESS
  /\ Len(last.calls) = 1
  /\ shell_command.m_status # 0

\* C6 as stated: after any Run call, successful or failed, the status, signal
\* and output of the shell command come from that invocation.
C6_EveryRunOverwrites ==
  last.op = "Run" =>
    /\ Len(last.calls) = 1
    /\ Results(shell_command) = last.calls[1].args[4]

\* C6 amended: a Run that reaches the transport (valid, connected, non-empty
\* command) overwrites status, signal and output with that invocation's
\* results; a Run that fails before it leaves all three as they were.
C6_RunOverwritesWhenTransportRuns ==
  [][ last'.op = "Run" =>
        IF WasConnected /\ shell_command.m_command # ""
          THEN Results(shell_command') = last'.calls[1].args[4]
          ELSE Results(shell_command') = Results(shell_command) ]_vars

\* C6 witness: after a Run that did not reach the transport the shell command
\* still shows the results of an earlier Run.
C6_Witness ==
  /\ last.op = "Run"
  /\ last.calls = <<>>
  /\ Results(shell_command) \in RunResults

\* C7: Run on a valid connected identity with an unset command fails with
\* "invalid shell command (empty)", invokes no transport operation and leaves
\* working_dir, status, signal and output of the shell command unchanged.
C7_EmptyCommandRefused ==
  [][ (last'.op = "Run" /\ WasConnected /\ shell_command.m_command = "") =>
        /\ last'.err = "invalid shell command (empty)"
        /\ last'.calls = <<>>
        /\ shell_command' = shell_command ]_vars

\* C7 witness: an empty command was refused while the platform has a working
\* directory the shell command does not.
C7_Witness ==
  /\ last.op = "Run"
  /\ last.err = "invalid shell command (empty)"
  /\ shell_command.m_working_dir = ""
  /\ working_dir[m_opaque_sp[last.w]] # ""

\* C8: when Run reaches the transport with working_dir unset, working_dir
\* becomes the platform's working directory, that directory is passed to the
\* transport and it stays in the shell command whatever the transport
\* answers; a working_dir already set is passed on and left unchanged.
C8_RunWorkingDir ==
  [][ (last'.op = "Run" /\ WasConnected /\ shell_command.m_command # "") =>
        LET dir == IF shell_command.m_working_dir = ""
                     THEN working_dir[CalledSP]
                     ELSE shell_command.m_working_dir
        IN /\ shell_command'.m_working_dir = dir
           /\ Len(last'.calls) = 1
           /\ last'.calls[1].args[3] = dir ]_vars

\* C8 witness: the transport failed and the shell command shows the
\* platform's working directory.
C8_Witness ==
  /\ last.op = "Run"
  /\ last.err = "transport failure"
  /\ shell_command.m_working_dir # ""
  /\ shell_command.m_working_dir = working_dir[m_opaque_sp[last.w]]

\* C9 as stated: DisconnectRemote never reports an error, and when the
\* identity is invalid or the connection already disconnected it changes no
\* state and invokes no transport operation.
C9_DisconnectIsNoOp ==
  [][ last'.op = "DisconnectRemote" =>
        /\ last'.err = SUCCESS
        /\ ~WasConnected =>
             /\ last'.calls = <<>>
             /\ UNCHANGED <<m_opaque_sp, connected, working_dir,
                            shell_command, launch_info>> ]_vars

\* C9 amended: DisconnectRemote never reports an error and changes neither a
\* wrapper nor a caller's object; on an invalid identity it invokes no
\* transport operation and changes no state; on a valid identity, connected
\* or not, it invokes the transport's disconnect once.
C9_DisconnectDelegatesWhenValid ==
  [][ last'.op = "DisconnectRemote" =>
        /\ last'.err = SUCCESS
        /\ UNCHANGED <<m_opaque_sp, working_dir, shell_command, launch_info>>
        /\ IF WasValid
             THEN /\ Len(last'.calls) = 1
                  /\ last'.calls[1].fn = "DisconnectRemote"
                  /\ last'.calls[1].platform = CalledSP
             ELSE /\ last'.calls = <<>>
                  /\ connected' = connected ]_vars

\* C9 witness: the transport's disconnect was invoked on a platform that was
\* not connected, and its failure was not reported.
C9_Witness ==
  /\ last.op = "DisconnectRemote"
  /\ Len(last.calls) = 1
  /\ last.calls[1].ret = "transport failure"
  /\ last.err = SUCCESS
  /\ ~connected[m_opaque_sp[last.w]]

StatusOps ==
  {"ConnectRemote", "Get", "Put", "Install", "Run", "Launch", "Kill",
   "MakeDirectory", "SetFilePermissions"}

\* C11 as stated: a call invokes at most one transport primitive, at most
\* once, and a failure of the transport is the result of the operation.
C11_FailureAlwaysSurfaced ==
  /\ Len(last.calls) <= 1
  /\ (Len(last.calls) = 1 /\ last.calls[1].ret # SUCCESS) =>
       last.err = last.calls[1].ret

\* C11 amended: a call invokes at most one transport primitive, at most
\* once; an operation that returns an SBError returns the Status of the
\* primitive it invoked, unchanged. DisconnectRemote and GetFilePermissions
\* have no error channel and drop the Status of the primitive.
C11_NoRetryStatusReturned ==
  /\ Len(last.calls) <= 1
  /\ (Len(last.calls) = 1 /\ last.op \in StatusOps) =>
       last.err = last.calls[1].ret
  /\ (Len(last.calls) = 1 /\ last.op \notin StatusOps) => last.err = SUCCESS

\* C11 witness: Kill on a connected platform failed in the transport, which
\* was asked once, and the failure is the result.
C11_Witness ==
  /\ last.op = "Kill"
  /\ Len(last.calls) = 1
  /\ last.calls[1].ret = "transport failure"
  /\ last.err = "transport failure"

\* what a getter returns for a C string given to a setter: nullptr for a
\* null or empty one
ReadBack(str) == IF str = NULL \/ str = "" THEN NULL ELSE str

\* C12: GetURL returns the value last given to SetURL or to the constructor,
\* GetLocalCacheDirectory the value last given to SetLocalCacheDirectory,
\* GetRsyncEnabled is true iff the last rsync call was EnableRsync; a null
\* or empty string reads back as nullptr; a setter changes what the getters
\* of the other fields return in no case.
C12_OptionsRoundTrip ==
  /\ [](last.op = "SBPlatformConnectOptions" =>
          /\ ConnectOptions_GetURL(m_opaque_ptr) = ReadBack(last.args[1])
          /\ ConnectOptions_GetLocalCacheDirectory(m_opaque_ptr) = NULL
          /\ ~ConnectOptions_GetRsyncEnabled(m_opaque_ptr))
  /\ [][ /\ ConnectOptions_GetURL(m_opaque_ptr') =
              IF last'.op = "ConnectOptions::SetURL"
                THEN ReadBack(last'.args[1])
                ELSE ConnectOptions_GetURL(m_opaque_ptr)
         /\ ConnectOptions_GetLocalCacheDirectory(m_opaque_ptr') =
              IF last'.op = "ConnectOptions::SetLocalCacheDirectory"
                THEN ReadBack(last'.args[1])
                ELSE ConnectOptions_GetLocalCacheDirectory(m_opaque_ptr)
         /\ ConnectOptions_GetRsyncEnabled(m_opaque_ptr') =
              IF last'.op = "ConnectOptions::EnableRsync" THEN TRUE
              ELSE IF last'.op = "ConnectOptions::DisableRsync" THEN FALSE
              ELSE ConnectOptions_GetRsyncEnabled(m_opaque_ptr)
         /\ last'.op # "ConnectOptions::EnableRsync" =>
              /\ m_opaque_ptr'.m_rsync_options = m_opaque_ptr.m_rsync_options
              /\ m_opaque_ptr'.m_rsync_remote_path_prefix =
                   m_opaque_ptr.m_rsync_remote_path_prefix
              /\ m_opaque_ptr'.m_rsync_omit_hostname_from_remote_path =
                   m_opaque_ptr.m_rsync_omit_hostname_from_remote_path ]_vars

\* C12 witness: an empty url was given to SetURL of options whose url was
\* set by the constructor or an earlier SetURL; the url reads back as
\* nullptr while rsync stays enabled and the cache directory stays set.
C12_Witness ==
  /\ last.op = "ConnectOptions::SetURL"
  /\ last.args[1] = ""
  /\ ConnectOptions_GetURL(m_opaque_ptr) = NULL
  /\ ConnectOptions_GetRsyncEnabled(m_opaque_ptr)
  /\ ConnectOptions_GetLocalCacheDirectory(m_opaque_ptr) = "/cache"

\* C13: after every EnableRsync, rsync is enabled and the stored options,
\* remote path prefix and omit-hostname flag are those of that call, a null
\* or empty options or prefix argument leaving the stored field empty.
C13_EnableRsyncResets ==
  [][ last'.op = "ConnectOptions::EnableRsync" =>
        /\ m_opaque_ptr'.m_rsync_enabled
        /\ m_opaque_ptr'.m_rsync_options =
             (IF last'.args[1] \in {NULL, ""} THEN "" ELSE last'.args[1])
        /\ m_opaque_ptr'.m_rsync_remote_path_prefix =
             (IF last'.args[2] \in {NULL, ""} THEN "" ELSE last'.args[2])
        /\ m_opaque_ptr'.m_rsync_omit_hostname_from_remote_path =
             last'.args[3] ]_vars

\* C13 witness: EnableRsync with null options, another prefix and the flag
\* off has been called; no options are stored, the prefix is the new one.
C13_Witness ==
  /\ last.op = "ConnectOptions::EnableRsync"
  /\ last.args = <<NULL, "/alt", FALSE>>
  /\ m_opaque_ptr.m_rsync_enabled
  /\ m_opaque_ptr.m_rsync_options = ""
  /\ m_opaque_ptr.m_rsync_remote_path_prefix = "/alt"
  /\ ~m_opaque_ptr.m_rsync_omit_hostname_from_remote_path

\* C14: Clear() of a shell command leaves the output empty and the status
\* and signal 0, leaves shell, command, working directory and timeout as
\* they were, and a second Clear() changes nothing.
C14_ClearResetsResultsOnly ==
  [][ last'.op = "ShellCommand::Clear" =>
        /\ shell_command'.m_output = ""
        /\ shell_command'.m_status = 0
        /\ shell_command'.m_signo = 0
        /\ shell_command'.m_shell = shell_command.m_shell
        /\ shell_command'.m_command = shell_command.m_command
        /\ shell_command'.m_working_dir = shell_command.m_working_dir
        /\ shell_command'.m_timeout = shell_command.m_timeout
        /\ last.op = "ShellCommand::Clear" => shell_command' = shell_command
    ]_vars

\* C14 witness: a shell command with a shell, a command, a working
\* directory and a timeout has been cleared.
C14_Witness ==
  /\ last.op = "ShellCommand::Clear"
  /\ shell_command.m_shell = "/bin/sh"
  /\ shell_command.m_command = "ls"
  /\ shell_command.m_working_dir = "/b"
  /\ shell_command.m_timeout = <<seconds(U32(0))>>
  /\ Results(shell_command) = Results(PlatformShellCommand(""))

\* C15: GetTimeoutSeconds() right after SetTimeoutSeconds(s) returns s, for
\* every s; UINT32_MAX is stored as no timeout and every other s as a
\* timeout; a freshly constructed shell command reads back UINT32_MAX.
C15_TimeoutRoundTrip ==
  [][ /\ last'.op = "ShellCommand::SetTimeoutSeconds" =>
           (shell_command'.m_timeout = None) = (last'.args[1] = UINT32_MAX)
      /\ (/\ last.op = "ShellCommand::SetTimeoutSeconds"
          /\ last'.op = "ShellCommand::GetTimeoutSeconds") =>
           last'.ret = last.args[1]
      /\ (/\ last.op = "SBPlatformShellCommand"
          /\ last'.op = "ShellCommand::GetTimeoutSeconds") =>
           last'.ret = UINT32_MAX ]_vars

\* C15 witness: a timeout of 2^31 seconds has been read back.
C15_Witness ==
  /\ last.op = "ShellCommand::GetTimeoutSeconds"
  /\ last.ret = <<32768, 0>>
  /\ shell_command.m_timeout = <<(<<0, 0, 32768, 0>>)>>

\* C16: MakeDirectory, GetFilePermissions, SetFilePermissions,
\* GetWorkingDirectory and SetWorkingDirectory test the identity only. On
\* a valid one, connected or not, they delegate to the platform and never
\* return "not connected", SetWorkingDirectory returning true for a null
\* path too; on an invalid one MakeDirectory and SetFilePermissions return
\* "invalid platform", GetFilePermissions 0, GetWorkingDirectory nullptr
\* and SetWorkingDirectory false, and the platform is not reached.
C16_IdentityOnlyOperations ==
  [][ /\ last'.op \in {"MakeDirectory", "SetFilePermissions"} =>
           IF WasValid
             THEN /\ Len(last'.calls) = 1
                  /\ last'.calls[1].fn = last'.op
                  /\ last'.calls[1].platform = CalledSP
                  /\ last'.calls[1].args = <<last'.args[1], last'.args[2]>>
                  /\ last'.err = last'.calls[1].ret
             ELSE last'.err = "invalid platform" /\ last'.calls = <<>>
      /\ last'.op = "GetFilePermissions" =>
           IF WasValid
             THEN /\ Len(last'.calls) = 1
                  /\ last'.calls[1].fn = "GetFilePermissions"
                  /\ last'.calls[1].platform = CalledSP
                  /\ last'.ret = last'.calls[1].args[2]
             ELSE last'.ret = 0 /\ last'.calls = <<>>
      /\ last'.op = "GetWorkingDirectory" =>
           /\ last'.ret = (IF ~WasValid \/ working_dir[CalledSP] = ""
                             THEN NULL ELSE working_dir[CalledSP])
           /\ working_dir' = working_dir
      /\ last'.op = "SetWorkingDirectory" =>
           IF WasValid
             THEN /\ last'.ret = TRUE
                  /\ working_dir' =
                       [working_dir EXCEPT ![CalledSP] =
                          IF last'.args[1] = NULL THEN "" ELSE last'.args[1]]
             ELSE last'.ret = FALSE /\ working_dir' = working_dir
      /\ last'.op \in {"MakeDirectory", "SetFilePermissions",
                       "GetFilePermissions", "GetWorkingDirectory",
                       "SetWorkingDirectory"} =>
           /\ last'.err # "not connected"
           /\ connected' = connected
           /\ m_opaque_sp' = m_opaque_sp ]_vars

\* C16 witness: MakeDirectory through a valid wrapper whose platform is not
\* connected reached the platform and succeeded.
C16_Witness ==
  /\ last.op = "MakeDirectory"
  /\ m_opaque_sp[last.w] # NULL
  /\ ~connected[m_opaque_sp[last.w]]
  /\ Len(last.calls) = 1
  /\ last.err = SUCCESS

\* C17: Put through a connected wrapper with an existing src hands PutFile
\* the permissions read from the local file when they are not zero, else
\* the directory default for a directory and the file default otherwise;
\* the value handed over is never zero.
C17_PutPermissionsResolved ==
  [][ (last'.op = "Put" /\ WasConnected /\ last'.args[1].exists) =>
        /\ Len(last'.calls) = 1
        /\ last'.calls[1].fn = "PutFile"
        /\ last'.calls[1].args[3] =
             (IF last'.args[1].permissions # 0
                THEN last'.args[1].permissions
                ELSE IF last'.args[1].is_dir
                       THEN eFilePermissionsDirectoryDefault
                       ELSE eFilePermissionsFileDefault)
        /\ last'.calls[1].args[3] # 0 ]_vars

\* C17 witness: a directory whose permissions read as zero has been put with
\* the directory default.
C17_Witness ==
  /\ last.op = "Put"
  /\ last.args[1].exists
  /\ last.args[1].is_dir
  /\ last.args[1].permissions = 0
  /\ Len(last.calls) = 1
  /\ last.calls[1].args[3] = eFilePermissionsDirectoryDefault

\* C18: Launch through a connected wrapper hands LaunchProcess a copy of the
\* caller's launch info, writes the copy as the transport left it back into
\* the caller's launch info whether the transport succeeded or failed, and
\* returns the transport's Status; when the gate refuses, the caller's
\* launch info is as it was.
C18_LaunchWritesBack ==
  [][ last'.op = "Launch" =>
        IF WasConnected
          THEN /\ Len(last'.calls) = 1
               /\ last'.calls[1].fn = "LaunchProcess"
               /\ last'.calls[1].args[1] = launch_info
               /\ launch_info' =
                    [launch_info EXCEPT !.pid = last'.calls[1].args[2]]
               /\ last'.err = last'.calls[1].ret
          ELSE launch_info' = launch_info /\ last'.calls = <<>> ]_vars

\* C18 witness: a launch failed in the transport, which had resolved a pid;
\* the pid is in the caller's launch info.
C18_Witness ==
  /\ last.op = "Launch"
  /\ Len(last.calls) = 1
  /\ last.err = "transport failure"
  /\ last.calls[1].args[1].pid = INVALID_PID
  /\ launch_info.pid = 7

\* the version the platform reported in the call, none on an invalid identity
Reported == IF WasValid THEN last'.calls[1].args[1] ELSE VersionTuple

\* C19: the three version queries return no error. Each returns UINT32_MAX
\* on an invalid identity and when its component is not available (the major
\* version: when the whole version is empty), the component the platform
\* reported otherwise, whether or not the platform is connected.
C19_VersionQueries ==
  [][ last'.op \in {"GetOSMajorVersion", "GetOSMinorVersion",
                    "GetOSUpdateVersion"} =>
        /\ Len(last'.calls) = (IF WasValid THEN 1 ELSE 0)
        /\ last'.err = SUCCESS
        /\ last'.op = "GetOSMajorVersion" =>
             last'.ret =
               (IF /\ Reported.major = 0
                   /\ Reported.minor \in {None, <<0>>}
                   /\ Reported.subminor \in {None, <<0>>}
                  THEN UINT32_MAX
                  ELSE <<0, Reported.major>>)
        /\ last'.op = "GetOSMinorVersion" =>
             last'.ret = (IF Reported.minor = None THEN UINT32_MAX
                          ELSE <<0, Reported.minor[1]>>)
        /\ last'.op = "GetOSUpdateVersion" =>
             last'.ret = (IF Reported.subminor = None THEN UINT32_MAX
                          ELSE <<0, Reported.subminor[1]>>)
        /\ UNCHANGED <<m_opaque_sp, connected, working_dir, shell_command,
                       launch_info>> ]_vars

\* C19 witness: a valid wrapper whose platform is not connected has reported
\* the minor version 15.
C19_Witness ==
  /\ last.op = "GetOSMinorVersion"
  /\ m_opaque_sp[last.w] # NULL
  /\ ~connected[m_opaque_sp[last.w]]
  /\ last.ret = <<0, 15>>

\* wrapper a was just assigned from the valid wrapper b, or a and b hold the
\* same platform from an earlier assignment
Aliases(a, b) ==
  /\ a # b
  /\ m_opaque_sp[b] # NULL
  /\ \/ last.op = "operator=" /\ last.w = a /\ last.args[1] = b
     \/ m_opaque_sp[a] = m_opaque_sp[b]

\* C20: after a = b with b valid, a ConnectRemote, DisconnectRemote or
\* SetWorkingDirectory through either wrapper is observed through the other
\* (IsConnected() and GetWorkingDirectory() of the two agree, and show the
\* connection made and the directory set), while Clear() on one makes that
\* one invalid and leaves the other valid with its connected state as it was.
C20_AliasesShareConnection ==
  [][ \A a \in Wrappers, b \in Wrappers :
        (Aliases(a, b) /\ last'.w \in {a, b}) =>
          /\ last'.op \in {"ConnectRemote", "DisconnectRemote",
                           "SetWorkingDirectory"} =>
               /\ IsConnected(a)' = IsConnected(b)'
               /\ GetWorkingDirectory(a)' = GetWorkingDirectory(b)'
          /\ (last'.op = "ConnectRemote" /\ Len(last'.calls) = 1
                /\ last'.err = SUCCESS) =>
               IsConnected(a)' /\ IsConnected(b)'
          /\ (last'.op = "DisconnectRemote" /\ Len(last'.calls) = 1
                /\ last'.calls[1].ret = SUCCESS) =>
               ~IsConnected(a)' /\ ~IsConnected(b)'
          /\ last'.op = "SetWorkingDirectory" =>
               /\ GetWorkingDirectory(a)' = ReadBack(last'.args[1])
               /\ GetWorkingDirectory(b)' = ReadBack(last'.args[1])
          /\ (last'.op = "Clear" /\ last'.w = a) =>
               /\ ~IsValid(a)'
               /\ IsValid(b)'
               /\ IsConnected(b)' = IsConnected(b)
          /\ (last'.op = "Clear" /\ last'.w = b /\ IsValid(a)) =>
               /\ ~IsValid(b)'
               /\ IsValid(a)'
               /\ IsConnected(a)' = IsConnected(a) ]_vars

\* C20 witness: one of two wrappers of one connected platform has been
\* cleared; the other is valid and connected.
C20_Witness ==
  /\ last.op = "Clear"
  /\ ~IsValid(last.w)
  /\ \E o \in Wrappers : IsValid(o) /\ IsConnected(o)

\* C21: in every reachable state, a wrapper for which IsConnected() is true
\* is valid; IsConnected() returns false through an invalid wrapper, also
\* right after Clear() on a wrapper whose platform is connected.
C21_ConnectedImpliesValid ==
  /\ \A w \in Wrappers : IsConnected(w) => IsValid(w)
  /\ last.op = "IsConnected" =>
       /\ last.ret = IsConnected(last.w)
       /\ last.ret => m_opaque_sp[last.w] # NULL
  /\ last.op = "Clear" => ~IsConnected(last.w)

\* C21 witness: IsConnected() has returned false through a wrapper that holds
\* no platform while the platform of the session is connected.
C21_Witness ==
  /\ last.op = "IsConnected"
  /\ last.ret = FALSE
  /\ m_opaque_sp[last.w] = NULL
  /\ \E p \in Platforms : connected[p]

\* C22: the two-argument constructor (interpreter, command) stores the
\* command only when the interpreter is not empty, so Run of a shell command
\* built with an empty interpreter through a valid connected wrapper fails
\* with "invalid shell command (empty)" before the transport; the
\* one-argument constructor stores every non-empty command.
C22_ConstructorStoresCommand ==
  /\ [](last.op = "SBPlatformShellCommand" =>
          IF Len(last.args) = 2
            THEN /\ shell_command.m_shell = last.args[1]
                 /\ shell_command.m_command =
                      (IF last.args[1] = "" THEN "" ELSE last.args[2])
            ELSE /\ shell_command.m_shell = ""
                 /\ shell_command.m_command = last.args[1])
  /\ [][ (/\ last.op = "SBPlatformShellCommand"
          /\ Len(last.args) = 2
          /\ last.args[1] = ""
          /\ last'.op = "Run"
          /\ WasConnected) =>
           /\ last'.err = "invalid shell command (empty)"
           /\ last'.calls = <<>> ]_vars

\* C22 witness: a shell command has been built from an empty interpreter and
\* the command "ls" while the wrapper is connected; it holds no command.
C22_Witness ==
  /\ last.op = "SBPlatformShellCommand"
  /\ last.args = <<"", "ls">>
  /\ shell_command.m_command = ""
  /\ \A w \in Wrappers : IsConnected(w)
====
